---------------------------- MODULE Spec2Model ----------------------------
(***************************************************************************)
(* Model of src/mia_app.py: the demand-forecasting dashboard.              *)
(*                                                                         *)
(* The script is a Streamlit page: every user interaction reruns it from   *)
(* top to bottom.  One rerun is: load_data (cached) -> item selection ->   *)
(* monthly aggregation -> sufficiency check -> Holt-Winters fit and        *)
(* forecast -> rounding -> chart, table, to_excel (cached), download.      *)
(*                                                                         *)
(* Data representation                                                     *)
(*   - a date is <<month, day>>, month a running month number (year*12 +   *)
(*     month), day the day of the month; a month start is <<month, 1>>.    *)
(*   - the column 'quantità' is written "quantita".                        *)
(*   - a CSV row is a function from the file's columns to cell values.     *)
(*   - a real number (a raw forecast value) is an integer count of         *)
(*     quarters: 6 stands for 1.5.  NaN is a separate value.               *)
(*   - an optional value is a record with a field kind.                    *)
(***************************************************************************)
EXTENDS Integers, Sequences, FiniteSets

VARIABLES
    uploaded_file,        \* the file in the uploader widget, or None
    selected_item,        \* value of the item selectbox
    periods_to_forecast,  \* value of the horizon slider
    seasonal_periods,     \* value of the seasonal-period number input
    trend_type,           \* value of the trend selectbox
    seasonal_type,        \* value of the seasonal selectbox
    load_cache,           \* st.cache_data store of load_data
    excel_cache,          \* st.cache_data store of to_excel
    parses,               \* per file id: how often the body of load_data ran
    df,                   \* result of load_data in the last run
    monthly_data,         \* monthly series of the last run
    raw_forecast,         \* what fit.forecast returned in the last run
    forecast,             \* forecast after rounding in the last run
    shown,                \* elements on the page after the last run
    download,             \* bytes behind the download button, or None
    raised,               \* the stage whose code raised in the last run
    stage                 \* where the last run ended

vars == <<uploaded_file, selected_item, periods_to_forecast, seasonal_periods,
          trend_type, seasonal_type, load_cache, excel_cache, parses, df,
          monthly_data, raw_forecast, forecast, shown, download, raised, stage>>

-----------------------------------------------------------------------------
(* Bounds of the model *)

MaxMonth == 2
MaxQty == 2
MaxRows == 2
MaxHorizon == 2
MaxSeasonal == 2
MaxRaw == 11
MaxRawLen == 2
MaxExcelEntries == 1
MaxParses == 2

(* Program constants *)

SliderMax == 36
DefaultHorizon == 12
DefaultSeasonal == 12

-----------------------------------------------------------------------------
(* Values *)

None == [kind |-> "None"]
NaN == [kind |-> "NaN"]

Columns == {"data", "item", "quantita"}
Items == {"A", "B"}
Modes == {"add", "mul", "none"}

Min(a, b) == IF a < b THEN a ELSE b
Max(a, b) == IF a > b THEN a ELSE b

\* Days of the month that occur: the month start and a later day.
Days == {1, 2}

Dates == (0..MaxMonth) \X Days

DateLeq(a, b) == a[1] < b[1] \/ (a[1] = b[1] /\ a[2] <= b[2])

FullRows == [data : Dates, item : Items, quantita : 1..MaxQty]

Restrict(r, cols) == [c \in cols |-> r[c]]

SeqsUpTo(S, n) == UNION {[1..k -> S] : k \in 0..n}

(* An uploaded CSV: whether pandas can tokenise it, its header, its rows. *)
CsvFile(id, ok, cols, rows) ==
    [kind |-> "File", id |-> id, wellFormed |-> ok, columns |-> cols, rows |-> rows]

-----------------------------------------------------------------------------
(* load_data *)

\* Faulty variant of sort_index: the rows are left in file order.
sort_index_skipped(s) == s

\* df.sort_index(): rows in non-decreasing order of the index.  Rows with
\* equal dates keep their file order (what numpy's sort does on short arrays;
\* nothing below depends on the order of equal dates).
RECURSIVE InsertRow(_, _)
InsertRow(s, r) ==
    IF s = <<>> THEN <<r>>
    ELSE IF DateLeq(s[Len(s)]["data"], r["data"]) THEN Append(s, r)
    ELSE Append(InsertRow(SubSeq(s, 1, Len(s) - 1), r), s[Len(s)])

RECURSIVE sort_index(_)
sort_index(s) ==
    IF s = <<>> THEN <<>>
    ELSE InsertRow(sort_index(SubSeq(s, 1, Len(s) - 1)), s[Len(s)])

\* pd.read_csv(uploaded_file, parse_dates=['data']) raises when the bytes are
\* not a CSV, and when the column named in parse_dates is not in the header.
read_csv_raises(f) == ~f.wellFormed \/ "data" \notin f.columns

\* The body of load_data: the table indexed by 'data' and sorted, or, when
\* anything in the try block raised, st.error and None.
load_data_body(f) ==
    IF read_csv_raises(f)
    THEN [value |-> None, messages |-> {"load_error"}]
    ELSE [value |-> [kind |-> "DataFrame",
                     columns |-> f.columns \ {"data"},
                     rows |-> sort_index(f.rows)],
          messages |-> {}]


\* @st.cache_data: an entry per argument key, holding the value returned and
\* the messages the body emitted, which a hit replays.
CacheHit(cache, key) == \E e \in cache : e.key = key
CacheGet(cache, key) == CHOOSE e \in cache : e.key = key

\* The key st.cache_data derives from an uploaded file: its identity.
FileKey(f) == f.id

\* A miss: the body runs and its result is stored.
load_data_miss(f, cache, result) ==
    [result |-> result,
     cache |-> cache \cup {[key |-> FileKey(f), result |-> result]},
     parsed |-> TRUE]

\* Faulty variant of load_data: the store is never consulted.
load_data_uncached(f, cache) == load_data_miss(f, cache, load_data_body(f))

\* load_data as called: the stored entry on a hit, the body on a miss.
load_data(f, cache) ==
    IF CacheHit(cache, FileKey(f))
    THEN [result |-> CacheGet(cache, FileKey(f)).result, cache |-> cache,
          parsed |-> FALSE]
    ELSE load_data_miss(f, cache, load_data_body(f))

-----------------------------------------------------------------------------
(* Item selection and monthly aggregation *)

NoItem == "<none>"

RECURSIVE Unique(_)
Unique(s) ==
    IF s = <<>> THEN <<>>
    ELSE LET u == Unique(SubSeq(s, 1, Len(s) - 1))
         IN IF \E k \in 1..Len(u) : u[k] = s[Len(s)] THEN u ELSE Append(u, s[Len(s)])

\* df['item'].unique(): the items in order of first appearance.
item_list(table) == Unique([k \in 1..Len(table.rows) |-> table.rows[k]["item"]])

\* st.sidebar.selectbox: the chosen option if it is offered, else the first
\* option, and None when there is no option.
selectbox(options, choice) ==
    IF \E k \in 1..Len(options) : options[k] = choice THEN choice
    ELSE IF options = <<>> THEN NoItem
    ELSE options[1]

RECURSIVE SelectRows(_, _)
SelectRows(rows, item) ==
    IF rows = <<>> THEN <<>>
    ELSE LET rest == SelectRows(SubSeq(rows, 1, Len(rows) - 1), item)
             r == rows[Len(rows)]
         IN IF r["item"] = item
            THEN Append(rest, [data |-> r["data"], quantita |-> r["quantita"]])
            ELSE rest

\* Faulty variant of item_data: the rows of every item are kept.
item_data_unfiltered(table, item) ==
    [k \in 1..Len(table.rows) |->
        [data |-> table.rows[k]["data"], quantita |-> table.rows[k]["quantita"]]]

\* df[df['item'] == selected_item]['quantità']
item_data(table, item) == SelectRows(table.rows, item)

MonthStart(d) == <<d[1], 1>>

RECURSIVE BucketSum(_, _)
BucketSum(series, bucket) ==
    IF series = <<>> THEN 0
    ELSE BucketSum(SubSeq(series, 1, Len(series) - 1), bucket)
         + (IF MonthStart(series[Len(series)].data) = bucket
            THEN series[Len(series)].quantita ELSE 0)

\* item_data.resample('MS').sum().fillna(0): one bucket per month start from
\* the month of the earliest row to the month of the latest, each the sum of
\* the rows that fall in it (the sum of no rows is 0).
resample_sum(series) ==
    IF series = <<>> THEN <<>>
    ELSE LET months == {series[k].data[1] : k \in 1..Len(series)}
             lo == CHOOSE m \in months : \A n \in months : m <= n
             hi == CHOOSE m \in months : \A n \in months : m >= n
         IN [k \in 1..(hi - lo + 1) |->
                [index |-> <<lo + k - 1, 1>>,
                 value |-> BucketSum(series, <<lo + k - 1, 1>>)]]

\* Lines 122-128 for the selected item.
aggregate(table, it) ==
    IF "quantita" \notin table.columns
    THEN [raised |-> "aggregate", item |-> it, monthly |-> <<>>]
    ELSE [raised |-> "none", item |-> it,
          monthly |-> resample_sum(item_data(table, it))]

\* Lines 101-128 for a loaded table: the item list, the selectbox, the filter
\* and the aggregation.  A missing column raises KeyError outside any try.
prepare(table, choice) ==
    IF "item" \notin table.columns
    THEN [raised |-> "select", item |-> NoItem, monthly |-> <<>>]
    ELSE aggregate(table, selectbox(item_list(table), choice))

\* Faulty variant of insufficient: one seasonal cycle is taken to be enough.
insufficient_one_cycle(monthly, sp) == Len(monthly) < sp

\* len(monthly_data) < 2 * seasonal_periods
insufficient(monthly, sp) == Len(monthly) < 2 * sp

-----------------------------------------------------------------------------
(* Forecast and rounding *)

Real(q) == [kind |-> "float", q |-> q]

\* Faulty variant of fit_forecast: the first step is the last sample month.
fit_forecast_overlapping(monthly, steps, values) ==
    [k \in 1..steps |->
        [index |-> <<monthly[Len(monthly)].index[1] + k - 1, 1>>, value |-> values[k]]]

\* fit.forecast(periods_to_forecast): the model's out-of-sample values for
\* the given number of steps, indexed by the month starts after the sample.
fit_forecast(monthly, steps, values) ==
    [k \in 1..steps |->
        [index |-> <<monthly[Len(monthly)].index[1] + k, 1>>, value |-> values[k]]]

\* Faulty variant of round: an exact half goes up.
round_half_up(q) == (q + 2) \div 4

\* Python's round(x) for a float, x given in quarters: the nearest integer,
\* an exact half going to the even neighbour.
round(q) ==
    LET fl == q \div 4
        rem == q % 4
    IN IF rem < 2 THEN fl
       ELSE IF rem > 2 THEN fl + 1
       ELSE IF fl % 2 = 0 THEN fl ELSE fl + 1

\* Faulty variant of clamp_round: the clamp is left out.
clamp_round_unclamped(x) == 4 * round(x.q)

\* lambda x: max(0, round(x)), the result again in quarters.
clamp_round(x) == 4 * Max(0, round(x.q))

\* forecast.apply(...): round(nan) raises ValueError.
apply_raises(series) == \E k \in 1..Len(series) : series[k].value = NaN

apply_clamp_round(series) ==
    [k \in 1..Len(series) |->
        [index |-> series[k].index, value |-> clamp_round(series[k].value)]]

-----------------------------------------------------------------------------
(* Export *)

\* forecast.to_frame() with index.name = "Data"
to_frame(series) == [index_name |-> "Data", column |-> "Previsione", cells |-> series]

\* The body of to_excel: one sheet, the index written as a labelled column.
to_excel_body(frame) ==
    [kind |-> "xlsx", sheet |-> "Previsione",
     header |-> <<frame.index_name, frame.column>>,
     data |-> [k \in 1..Len(frame.cells) |->
                  <<frame.cells[k].index, frame.cells[k].value>>]]

\* Faulty variant of FrameKey: only the shape of the frame is hashed.
FrameKeyShape(frame) == Len(frame.cells)

\* The key st.cache_data derives from a DataFrame: its contents.
FrameKey(frame) == frame

to_excel_miss(frame, cache, result) ==
    [result |-> result,
     cache |-> cache \cup {[key |-> FrameKey(frame), result |-> result]}]

\* to_excel as called.
to_excel(frame, cache) ==
    IF CacheHit(cache, FrameKey(frame))
    THEN [result |-> CacheGet(cache, FrameKey(frame)).result, cache |-> cache]
    ELSE to_excel_miss(frame, cache, to_excel_body(frame))

-----------------------------------------------------------------------------
(* One run of the script *)

\* What the libraries do in a run, which the script does not decide: whether
\* ExponentialSmoothing(...).fit() raises, the values fit.forecast returns,
\* and whether writing the workbook raises.  The values of a Holt-Winters
\* forecast without season are level + k * slope for step k; a fit whose
\* optimiser diverged returns NaN at every step.
Curves == {[level |-> -7, slope |-> 4], [level |-> 2, slope |-> 4]}

Curve(c, steps) == [k \in 1..steps |-> Real(c.level + k * c.slope)]
NaNs(steps) == [k \in 1..steps |-> NaN]

FitRaises == [fit |-> "raise", raw |-> <<>>, excel |-> "ok"]

LibOutcomes(steps) ==
    {FitRaises}
    \cup {[fit |-> "ok", raw |-> NaNs(steps), excel |-> "ok"]}
    \cup {[fit |-> "ok", raw |-> Curve(c, steps), excel |-> e] :
             c \in Curves, e \in {"ok", "raise"}}

Blank(w, lc, xc) ==
    [df |-> None, item |-> w.item, monthly |-> <<>>, raw |-> <<>>,
     forecast |-> <<>>, shown |-> {}, download |-> None, raised |-> "none",
     stage |-> "no_file", load_cache |-> lc, excel_cache |-> xc, parsed |-> FALSE]

BeforeFit == {"monthly_head", "hist_chart"}
Drawn == BeforeFit \cup {"forecast_chart", "forecast_table"}

\* Lines 205-212: to_excel and the download button.
export(base, raw, fc, x) ==
    [base EXCEPT !.raw = raw, !.forecast = fc,
                 !.shown = Drawn \cup {"download_button"},
                 !.download = [kind |-> "Download", data |-> x.result,
                               file_name |-> base.item],
                 !.excel_cache = x.cache,
                 !.stage = "done"]

\* Lines 176-212 and 214-216: chart and table, then the export; an exception
\* of the export is caught by the except clause of the fit.
chart_and_export(base, lib, raw, fc, frame) ==
    IF ~CacheHit(base.excel_cache, FrameKey(frame)) /\ lib.excel = "raise"
    THEN [base EXCEPT !.raw = raw, !.forecast = fc,
                      !.shown = Drawn \cup {"model_error"},
                      !.raised = "export", !.stage = "model_error"]
    ELSE export(base, raw, fc, to_excel(frame, base.excel_cache))

\* Lines 171-216: the rounding, inside the same try block.
round_forecast(base, lib, raw) ==
    IF apply_raises(raw)
    THEN [base EXCEPT !.raw = raw, !.shown = BeforeFit \cup {"model_error"},
                      !.raised = "postprocess", !.stage = "model_error"]
    ELSE chart_and_export(base, lib, raw, apply_clamp_round(raw),
                          to_frame(apply_clamp_round(raw)))

\* Lines 153-216: the try block around fit, forecast, rounding, chart, table,
\* export and download, and its single except clause.
forecast_block(base, w, lib) ==
    IF lib.fit = "raise"
    THEN [base EXCEPT !.shown = BeforeFit \cup {"model_error"},
                      !.raised = "fit", !.stage = "model_error"]
    ELSE round_forecast(base, lib, fit_forecast(base.monthly, w.horizon, lib.raw))

\* Lines 101-216 for a loaded table.
analyse(loaded, w, lib, p) ==
    IF p.raised # "none"
    THEN [loaded EXCEPT !.item = p.item, !.shown = {"uncaught_exception"},
                        !.raised = p.raised, !.stage = "uncaught"]
    ELSE IF insufficient(p.monthly, w.sp)
    THEN [loaded EXCEPT !.item = p.item, !.monthly = p.monthly,
                        !.shown = {"monthly_head", "warning"},
                        !.stage = "insufficient"]
    ELSE forecast_block([loaded EXCEPT !.item = p.item, !.monthly = p.monthly],
                        w, lib)

\* Lines 99-216: from the call of load_data on.
main(w, lib, xc, ld) ==
    IF ld.result.value = None
    THEN [Blank(w, ld.cache, xc) EXCEPT !.parsed = ld.parsed,
                                        !.shown = ld.result.messages,
                                        !.raised = "load", !.stage = "load_error"]
    ELSE analyse([Blank(w, ld.cache, xc) EXCEPT !.parsed = ld.parsed,
                                                !.df = ld.result.value],
                 w, lib, prepare(ld.result.value, w.item))

\* Lines 85-216: the whole script for the uploader value u, the widget values
\* w, the library outcome lib and the two cache stores.
Script(u, w, lib, lc, xc) ==
    IF u = None
    THEN [Blank(w, lc, xc) EXCEPT !.shown = {"info"}, !.stage = "no_file"]
    ELSE main(w, lib, xc, load_data(u, lc))

-----------------------------------------------------------------------------
(* The session: every interaction reruns the script *)

\* The files of a session: one without the 'data' column, and two valid ones
\* whose items have monthly series of 4 and 1 months, and of 2 and 3 months.
FileA == CsvFile(1, TRUE, {"item", "quantita"},
                 <<[item |-> "A", quantita |-> 1]>>)
FileB == CsvFile(2, TRUE, Columns,
                 <<[data |-> <<3, 1>>, item |-> "A", quantita |-> 2],
                   [data |-> <<3, 2>>, item |-> "B", quantita |-> 1],
                   [data |-> <<0, 1>>, item |-> "A", quantita |-> 1]>>)
FileC == CsvFile(3, TRUE, Columns,
                 <<[data |-> <<3, 2>>, item |-> "A", quantita |-> 1],
                   [data |-> <<3, 1>>, item |-> "B", quantita |-> 2],
                   [data |-> <<2, 1>>, item |-> "A", quantita |-> 3],
                   [data |-> <<1, 2>>, item |-> "B", quantita |-> 1]>>)

Catalogue == {FileA, FileB, FileC}
FileIds == {f.id : f \in Catalogue} \cup {0}

\* The widget values the next run reads.  A widget keeps its value from run to
\* run; the item selectbox falls back to its first option when the value is
\* not among the options of the current file.
Widgets ==
    [item |-> selected_item, horizon |-> periods_to_forecast,
     sp |-> seasonal_periods, trend |-> trend_type, seasonal |-> seasonal_type]

\* The library outcomes that make a difference to a run: all of them when the
\* run gets to the fit, one otherwise.
LibChoices(u, w) ==
    IF Script(u, w, FitRaises, load_cache, excel_cache).raised = "fit"
    THEN LibOutcomes(w.horizon)
    ELSE {FitRaises}

\* One rerun with uploader value u and widget values w.  The two guards keep
\* the session within MaxExcelEntries stored workbooks and MaxParses parses
\* of a file.
Rerun(u, w) ==
    \E lib \in LibChoices(u, w) :
        \E r \in {Script(u, w, lib, load_cache, excel_cache)} :
           /\ Cardinality(r.excel_cache) <= MaxExcelEntries
           /\ r.parsed => parses[u.id] < MaxParses
           /\ uploaded_file' = u
           /\ selected_item' = r.item
           /\ periods_to_forecast' = w.horizon
           /\ seasonal_periods' = w.sp
           /\ trend_type' = w.trend
           /\ seasonal_type' = w.seasonal
           /\ load_cache' = r.load_cache
           /\ excel_cache' = r.excel_cache
           /\ parses' = IF r.parsed THEN [parses EXCEPT ![u.id] = @ + 1] ELSE parses
           /\ df' = r.df
           /\ monthly_data' = r.monthly
           /\ raw_forecast' = r.raw
           /\ forecast' = r.forecast
           /\ shown' = r.shown
           /\ download' = r.download
           /\ raised' = r.raised
           /\ stage' = r.stage

\* The sidebar widgets of lines 104-114 exist once line 103 has passed.
WidgetsShown ==
    stage \in {"insufficient", "model_error", "done"}
    \/ (stage = "uncaught" /\ raised = "aggregate")

Upload(f) == uploaded_file # f /\ Rerun(f, Widgets)

RemoveFile == uploaded_file # None /\ Rerun(None, Widgets)

RerunSame == Rerun(uploaded_file, Widgets)

SelectItem(i) ==
    /\ WidgetsShown
    /\ \E k \in 1..Len(item_list(df)) : item_list(df)[k] = i
    /\ i # selected_item
    /\ Rerun(uploaded_file, [Widgets EXCEPT !.item = i])

SetHorizon(n) ==
    WidgetsShown /\ n # periods_to_forecast
    /\ Rerun(uploaded_file, [Widgets EXCEPT !.horizon = n])

SetSeasonalPeriods(n) ==
    WidgetsShown /\ n # seasonal_periods
    /\ Rerun(uploaded_file, [Widgets EXCEPT !.sp = n])

SetTrend(m) ==
    WidgetsShown /\ m # trend_type
    /\ Rerun(uploaded_file, [Widgets EXCEPT !.trend = m])

SetSeasonal(m) ==
    WidgetsShown /\ m # seasonal_type
    /\ Rerun(uploaded_file, [Widgets EXCEPT !.seasonal = m])

\* The widget defaults of lines 104-114, the two numbers cut to the bounds.
InitWidgets ==
    [item |-> NoItem, horizon |-> Min(DefaultHorizon, MaxHorizon),
     sp |-> Min(DefaultSeasonal, MaxSeasonal), trend |-> "add", seasonal |-> "add"]

InitWith(u, r) ==
    /\ uploaded_file = u
    /\ selected_item = r.item
    /\ periods_to_forecast = InitWidgets.horizon
    /\ seasonal_periods = InitWidgets.sp
    /\ trend_type = InitWidgets.trend
    /\ seasonal_type = InitWidgets.seasonal
    /\ load_cache = {}
    /\ excel_cache = {}
    /\ parses = [i \in FileIds |-> 0]
    /\ df = r.df
    /\ monthly_data = r.monthly
    /\ raw_forecast = r.raw
    /\ forecast = r.forecast
    /\ shown = r.shown
    /\ download = r.download
    /\ raised = r.raised
    /\ stage = r.stage

\* The page as first opened: no file, so the script stops at line 95.
Init == InitWith(None, Script(None, InitWidgets, FitRaises, {}, {}))

Next ==
    \/ \E f \in Catalogue : Upload(f)
    \/ RemoveFile
    \/ RerunSame
    \/ \E i \in Items : SelectItem(i)
    \/ \E n \in 1..Min(SliderMax, MaxHorizon) : SetHorizon(n)
    \/ \E n \in 1..MaxSeasonal : SetSeasonalPeriods(n)
    \/ \E m \in Modes : SetTrend(m)
    \/ \E m \in Modes : SetSeasonal(m)

Spec == Init /\ [][Next]_vars

-----------------------------------------------------------------------------
(* load_data and the aggregation applied to every small CSV *)

RowsOver(cols) == {Restrict(r, cols) : r \in FullRows}

Unloaded == [Blank(InitWidgets, {}, {}) EXCEPT !.stage = "uploaded"]

\* Every CSV within the bounds: one that does not parse, and for every header
\* over the three columns every sequence of at most MaxRows rows.
InitLoad ==
    \/ InitWith(CsvFile(0, FALSE, Columns, <<>>), Unloaded)
    \/ \E cols \in SUBSET Columns :
          \E rows \in SeqsUpTo(RowsOver(cols), MaxRows) :
             InitWith(CsvFile(0, TRUE, cols, rows), Unloaded)

\* Line 99: df = load_data(uploaded_file)
LoadStep ==
    /\ stage = "uploaded"
    /\ \E ld \in {load_data(uploaded_file, load_cache)} :
          /\ df' = ld.result.value
          /\ shown' = ld.result.messages
          /\ load_cache' = ld.cache
          /\ parses' = [parses EXCEPT ![uploaded_file.id] = @ + 1]
          /\ raised' = IF ld.result.value = None THEN "load" ELSE "none"
    /\ stage' = "loaded"
    /\ UNCHANGED <<uploaded_file, selected_item, periods_to_forecast,
                   seasonal_periods, trend_type, seasonal_type, excel_cache,
                   monthly_data, raw_forecast, forecast, download>>

\* Lines 101-128 with the user's choice in the item selectbox.
AggregateStep(choice) ==
    /\ stage = "loaded"
    /\ df # None
    /\ \E p \in {prepare(df, choice)} :
          /\ selected_item' = p.item
          /\ monthly_data' = p.monthly
          /\ raised' = p.raised
          /\ shown' = IF p.raised = "none" THEN {"monthly_head"}
                      ELSE {"uncaught_exception"}
    /\ stage' = "aggregated"
    /\ UNCHANGED <<uploaded_file, periods_to_forecast, seasonal_periods,
                   trend_type, seasonal_type, load_cache, excel_cache, parses,
                   df, raw_forecast, forecast, download>>

NextLoad == LoadStep \/ \E i \in Items : AggregateStep(i)

SpecLoad == InitLoad /\ [][NextLoad]_vars

-----------------------------------------------------------------------------
(* The rounding and what follows it applied to every small raw forecast *)

RawValues == {Real(q) : q \in (-MaxRaw)..MaxRaw} \cup {NaN}

History == <<[index |-> <<0, 1>>, value |-> 1], [index |-> <<1, 1>>, value |-> 1]>>

RawSeries ==
    UNION {{fit_forecast(History, n, v) : v \in [1..n -> RawValues]} :
              n \in 1..MaxRawLen}

Fitted(raw) ==
    [Blank(InitWidgets, {}, {}) EXCEPT !.monthly = History, !.raw = raw,
                                       !.stage = "forecast"]

InitRound == \E raw \in RawSeries : InitWith(None, Fitted(raw))

\* Lines 171-212 on the series fit.forecast returned.
RoundStep ==
    /\ stage = "forecast"
    /\ \E r \in {round_forecast(Fitted(raw_forecast),
                                [fit |-> "ok", raw |-> <<>>, excel |-> "ok"],
                                raw_forecast)} :
          /\ forecast' = r.forecast
          /\ shown' = r.shown
          /\ download' = r.download
          /\ excel_cache' = r.excel_cache
          /\ raised' = r.raised
          /\ stage' = r.stage
    /\ UNCHANGED <<uploaded_file, selected_item, periods_to_forecast,
                   seasonal_periods, trend_type, seasonal_type, load_cache,
                   parses, df, monthly_data, raw_forecast>>

NextRound == RoundStep

SpecRound == InitRound /\ [][NextRound]_vars

-----------------------------------------------------------------------------
(* Properties *)

Required == {"data", "item", "quantita"}
ValidFile(f) == f.wellFormed /\ Required \subseteq f.columns

Abs(n) == IF n < 0 THEN -n ELSE n

\* The integer nearest to q quarters, an exact half going to the even one.
NearestTiesEven(q) ==
    CHOOSE n \in (-MaxRaw)..MaxRaw :
        \A m \in ((-MaxRaw)..MaxRaw) \ {n} :
            \/ Abs(4 * n - q) < Abs(4 * m - q)
            \/ (Abs(4 * n - q) = Abs(4 * m - q) /\ n % 2 = 0)

\* The integer nearest to q quarters, an exact half going away from zero.
NearestTiesAway(q) ==
    CHOOSE n \in (-MaxRaw)..MaxRaw :
        \A m \in ((-MaxRaw)..MaxRaw) \ {n} :
            \/ Abs(4 * n - q) < Abs(4 * m - q)
            \/ (Abs(4 * n - q) = Abs(4 * m - q) /\ Abs(n) > Abs(m))

ClampNegative(q) == IF q < 0 THEN 0 ELSE q

\* The rows of item it in a file, by position, and their months.
RowsOfItem(f, it) == {k \in 1..Len(f.rows) : f.rows[k]["item"] = it}
MonthsOfItem(f, it) == {f.rows[k]["data"][1] : k \in RowsOfItem(f, it)}

RECURSIVE TotalQty(_, _)
TotalQty(f, ks) ==
    IF ks = {} THEN 0
    ELSE LET k == CHOOSE x \in ks : TRUE
         IN f.rows[k]["quantita"] + TotalQty(f, ks \ {k})

\* The monthly series the file defines for item it: a bucket for every month
\* from the first to the last month of the item, holding the month's total.
IsMonthlySeriesOf(series, f, it) ==
    LET months == MonthsOfItem(f, it)
    IN IF months = {} THEN series = <<>>
       ELSE LET lo == CHOOSE m \in months : \A n \in months : m <= n
                hi == CHOOSE m \in months : \A n \in months : m >= n
            IN /\ Len(series) = hi - lo + 1
               /\ \A j \in 1..Len(series) :
                     /\ series[j].index = <<lo + j - 1, 1>>
                     /\ series[j].value =
                           TotalQty(f, {k \in RowsOfItem(f, it) :
                                           f.rows[k]["data"][1] = lo + j - 1})

Occurrences(rows, r) == Cardinality({k \in 1..Len(rows) : rows[k] = r})

ForecastOutput == {"forecast_chart", "forecast_table", "download_button"}

\* C1: a file that does not parse or lacks one of 'data', 'item', 'quantità'
\* ends the load with the error shown and None returned, and nothing after
\* the load runs or raises.
C1_BadFileStopsAtLoad ==
    (stage # "uploaded" /\ ~ValidFile(uploaded_file))
        => /\ df = None
           /\ stage = "loaded"
           /\ shown = {"load_error"}
           /\ raised = "load"

\* C2: a monthly series shorter than 2 * seasonal_periods halts the run with
\* the warning, with no fit, no forecast and no download, whatever the trend
\* and seasonal modes; a series of at least that length goes on to the fit.
C2_SufficiencyGate ==
    stage \in {"insufficient", "model_error", "done"}
        => /\ (Len(monthly_data) < 2 * seasonal_periods) <=> (stage = "insufficient")
           /\ stage = "insufficient"
                 => /\ "warning" \in shown
                    /\ shown \cap (ForecastOutput \cup {"model_error"}) = {}
                    /\ raised = "none"
                    /\ raw_forecast = <<>>
                    /\ forecast = <<>>
                    /\ download = None

C2_Witness ==
    /\ stage = "insufficient"
    /\ trend_type = "none"
    /\ seasonal_type = "none"
    /\ Len(monthly_data) = 2 * seasonal_periods - 1
    /\ seasonal_periods > 1

\* C3: every value of a forecast that is charted, tabulated and exported is a
\* non-negative integer, whatever the raw values were.
C3_NonNegativeIntegers ==
    forecast # <<>>
        => /\ Len(forecast) = Len(raw_forecast)
           /\ \A k \in 1..Len(forecast) :
                 /\ forecast[k].value >= 0
                 /\ forecast[k].value % 4 = 0
           /\ stage = "done"
                 => \A k \in 1..Len(forecast) :
                       download.data.data[k][2] = forecast[k].value

C3_Witness ==
    /\ stage = "done"
    /\ \E k \in 1..Len(raw_forecast) :
          raw_forecast[k].value.q < 0 /\ raw_forecast[k].value.q % 4 # 0
    /\ \E k \in 1..Len(raw_forecast) :
          raw_forecast[k].value.q > 0 /\ raw_forecast[k].value.q % 4 # 0

\* C4 as stated: every rounded value is the raw value clamped at zero and
\* then rounded to the nearest integer, an exact half away from zero.
C4_HalfAwayFromZero ==
    forecast # <<>>
        => \A k \in 1..Len(forecast) :
              forecast[k].value
                  = 4 * NearestTiesAway(ClampNegative(raw_forecast[k].value.q))

\* C4 as amended: every rounded value is the raw value clamped at zero and
\* then rounded to the nearest integer, an exact half to the even neighbour.
C4_HalfToEven ==
    forecast # <<>>
        => \A k \in 1..Len(forecast) :
              forecast[k].value
                  = 4 * NearestTiesEven(ClampNegative(raw_forecast[k].value.q))

C4_Witness ==
    /\ stage = "done"
    /\ \E k \in 1..Len(raw_forecast) :
          /\ raw_forecast[k].value.q > 0
          /\ raw_forecast[k].value.q % 4 = 2
          /\ forecast[k].value = raw_forecast[k].value.q - 2

\* C5: a forecast for horizon N has exactly N points, on the N month starts
\* that follow the last month of the monthly series.
C5_HorizonAndIndex ==
    forecast # <<>>
        => /\ Len(forecast) = periods_to_forecast
           /\ \A k \in 1..Len(forecast) :
                 forecast[k].index
                     = <<monthly_data[Len(monthly_data)].index[1] + k, 1>>
           /\ \A k \in 1..Len(forecast) : \A j \in 1..Len(monthly_data) :
                 forecast[k].index # monthly_data[j].index

C5_Witness ==
    /\ stage = "done"
    /\ periods_to_forecast > 1
    /\ Len(forecast) = periods_to_forecast

\* C6: the monthly series of the selected item has one entry per month start
\* from the item's first month to its last, each the sum of the item's
\* quantities in that month (zero for a month without a row); rows of other
\* items do not count.
C6_MonthlySeries ==
    (stage = "aggregated" /\ raised = "none" /\ selected_item # NoItem)
        => IsMonthlySeriesOf(monthly_data, uploaded_file, selected_item)

C6_Witness ==
    /\ stage = "aggregated"
    /\ raised = "none"
    /\ Len(monthly_data) = 3
    /\ monthly_data[2].value = 0
    /\ monthly_data[1].value # monthly_data[3].value

\* C7: for a valid CSV the table returned by load_data is indexed by the date
\* column, its index is non-decreasing, and its rows are those of the file.
C7_SortedSameRows ==
    (stage # "uploaded" /\ uploaded_file # None /\ ValidFile(uploaded_file))
        => /\ df # None
           /\ df.columns = uploaded_file.columns \ {"data"}
           /\ \A k \in 1..(Len(df.rows) - 1) :
                 DateLeq(df.rows[k]["data"], df.rows[k + 1]["data"])
           /\ Len(df.rows) = Len(uploaded_file.rows)
           /\ \A k \in 1..Len(uploaded_file.rows) :
                 Occurrences(df.rows, uploaded_file.rows[k])
                     = Occurrences(uploaded_file.rows, uploaded_file.rows[k])

C7_Witness ==
    /\ stage = "loaded"
    /\ ValidFile(uploaded_file)
    /\ Len(uploaded_file.rows) = 2
    /\ ~DateLeq(uploaded_file.rows[1]["data"], uploaded_file.rows[2]["data"])
    /\ df.rows[1] = uploaded_file.rows[2]

\* C8: an error is shown under the stage that raised it: a failed fit shows
\* the model error and no forecast output; a failure after the fit (rounding,
\* chart, export) is not shown as a model error and leaves no forecast output.
C8_ErrorsByStage ==
    /\ raised = "fit"
          => "model_error" \in shown /\ shown \cap ForecastOutput = {}
    /\ raised \in {"postprocess", "export"}
          => "model_error" \notin shown /\ shown \cap ForecastOutput = {}

\* C9: load_data parses a file at most once in a session; every stored result
\* is what parsing the file returns; the current file has been parsed, and
\* its stored result, with its error report, is what the run used.
C9_ParsedOncePerFile ==
    /\ \A f \in Catalogue :
          /\ parses[f.id] <= 1
          /\ parses[f.id] = 1 <=> CacheHit(load_cache, FileKey(f))
          /\ CacheHit(load_cache, FileKey(f))
                => CacheGet(load_cache, FileKey(f)).result = load_data_body(f)
    /\ uploaded_file # None
          => /\ parses[uploaded_file.id] = 1
             /\ df = load_data_body(uploaded_file).value
             /\ df = None => shown = load_data_body(uploaded_file).messages

C9_Witness ==
    /\ uploaded_file = FileB
    /\ stage = "done"
    /\ parses[FileA.id] = 1
    /\ parses[FileB.id] = 1
    /\ parses[FileC.id] = 0
    /\ trend_type = "none"

=============================================================================
